---- MODULE Spec2Model ----
(***************************************************************************)
(* DFA Builder & Tester (src/app.js): the automaton model (class DFA), the *)
(* canvas editor (class DFACanvas) and the toolbar / form listeners.       *)
(*                                                                         *)
(* JavaScript objects are modelled by a heap: a state object is a          *)
(* reference (an index into heap), so that === is equality of references   *)
(* and an object removed from dfa.states can still be held by the editor.  *)
(* Rendering (draw, drawState, drawTransition, drawSelfLoop) and mousePos, *)
(* which only rendering reads, change nothing that is modelled here.       *)
(* DFA.currentState is set to null by the constructor and never used.      *)
(***************************************************************************)
EXTENDS Integers, Sequences, FiniteSets, TLC

(* ------------------------------ bounds -------------------------------- *)

\* state objects created in one session (size of the heap)
MaxAlloc == 2
\* length of a tested input string
MaxLen == 2
\* length of the symbol list handed to setAlphabet
MaxAlphaLen == 2
\* events the editor handles in one session
MaxEvents == 8
\* direct method calls a client makes in one session
MaxCalls == 5

\* the number of editor events and method runs of a session in which the
\* methods run step by step
MaxSetup == 5

(* ----------------------------- input sets ----------------------------- *)

\* the symbols a user types: alphabet members and characters of an input
Symbols == {"0", "1"}

\* canvas points of mouse events; <<0,0>> and <<18,24>> are exactly 30 apart
Points == {<<0, 0>>, <<18, 24>>, <<60, 0>>}

\* what the user can type into the state name field ("" is the empty field)
NameInputs == {"", "a"}

\* the four editing modes of the toolbar
Modes == {"addState", "addTransition", "select", "delete"}

RECURSIVE SeqsUpTo(_, _)
SeqsUpTo(S, n) ==
  IF n = 0 THEN {<<>>}
  ELSE LET shorter == SeqsUpTo(S, n - 1)
       IN shorter \cup {Append(w, c) : w \in {v \in shorter : Len(v) = n - 1}, c \in S}

InputStrings == SeqsUpTo(Symbols, MaxLen)
SymbolLists == SeqsUpTo(Symbols, MaxAlphaLen)

(* ------------------------------ values -------------------------------- *)

\* null (references are 1, 2, ...)
Null == 0

\* radius: 30
Radius == 30

\* `q${id}`
DefaultName(id) == "q" \o ToString(id)

\* {} : a transition table with no entry
EmptyTable == [sym \in {} |-> Null]

\* delete table[symbol] for every symbol in gone
DeleteKeys(table, gone) == [sym \in (DOMAIN table) \ gone |-> table[sym]]

\* table[symbol] = target
PutKey(table, symbol, target) ==
  [sym \in (DOMAIN table) \cup {symbol} |-> IF sym = symbol THEN target ELSE table[sym]]

Range(seq) == {seq[i] : i \in DOMAIN seq}

\* Set.has on the insertion-ordered alphabet
Has(alpha, symbol) == symbol \in Range(alpha)

\* new Set(symbols): first occurrences, in order
RECURSIVE NewSet(_)
NewSet(symbols) ==
  IF symbols = <<>> THEN <<>>
  ELSE LET front == NewSet(SubSeq(symbols, 1, Len(symbols) - 1))
           last == symbols[Len(symbols)]
       IN IF Has(front, last) THEN front ELSE Append(front, last)

(* ------------------------------- state -------------------------------- *)

VARIABLES
  heap,            \* the state objects ever created, by reference
  states,          \* dfa.states: references, in insertion order
  alphabet,        \* dfa.alphabet: a Set, in insertion order
  startState,      \* dfa.startState: a reference or Null
  stateIdCounter,  \* dfa.stateIdCounter
  selectedState,   \* dfaCanvas.selectedState
  draggedState,    \* dfaCanvas.draggedState
  isDragging,      \* dfaCanvas.isDragging
  mode,            \* dfaCanvas.mode
  transitionStart, \* dfaCanvas.transitionStart
  call,            \* the DFA method the running listener called (other than the
                   \* hit test getStateAt of the mouse listeners): op, args, ret
  events           \* the number of events (or direct calls) handled so far

dfaVars == <<heap, states, alphabet, startState, stateIdCounter>>
canvasVars == <<selectedState, draggedState, isDragging, mode, transitionStart>>
vars == <<heap, states, alphabet, startState, stateIdCounter,
          selectedState, draggedState, isDragging, mode, transitionStart, call, events>>

\* the DFA object together with the state objects, as one value
Dfa ==
  [heap |-> heap, states |-> states, alphabet |-> alphabet,
   startState |-> startState, stateIdCounter |-> stateIdCounter]

Commit(d) ==
  /\ heap' = d.heap
  /\ states' = d.states
  /\ alphabet' = d.alphabet
  /\ startState' = d.startState
  /\ stateIdCounter' = d.stateIdCounter

NoCall == [op |-> "none", args |-> <<>>, ret |-> Null]
Called(op, args, ret) == [op |-> op, args |-> args, ret |-> ret]

\* JavaScript runs one listener at a time, to completion: an event is taken
\* when no listener is running
Event ==
  /\ call = NoCall
  /\ events < MaxEvents
  /\ events' = events + 1

\* the running listener returns; the value of its call is dropped
Return ==
  /\ call # NoCall
  /\ call' = NoCall
  /\ UNCHANGED <<dfaVars, canvasVars, events>>

(* --------------------------- class DFA -------------------------------- *)
\* Each method takes the DFA d and returns [d |-> the DFA after, ret |-> value].

\* addState taking the id from the size of the collection
addStateIdFromLength(d, x, y, name) ==
  LET id == Len(d.states)
      ref == Len(d.heap) + 1
      state == [id |-> id,
                name |-> IF name = "" THEN DefaultName(id) ELSE name,
                x |-> x, y |-> y, radius |-> Radius,
                isStart |-> FALSE, isAccept |-> FALSE,
                transitions |-> EmptyTable]
  IN [d |-> [d EXCEPT !.stateIdCounter = @ + 1,
                      !.heap = Append(@, state),
                      !.states = Append(@, ref)],
      ret |-> ref]

addState(d, x, y, name) ==
  LET id == d.stateIdCounter
      ref == Len(d.heap) + 1
      state == [id |-> id,
                name |-> IF name = "" THEN DefaultName(id) ELSE name,
                x |-> x, y |-> y, radius |-> Radius,
                isStart |-> FALSE, isAccept |-> FALSE,
                transitions |-> EmptyTable]
  IN [d |-> [d EXCEPT !.stateIdCounter = id + 1,
                      !.heap = Append(@, state),
                      !.states = Append(@, ref)],
      ret |-> ref]

\* states.findIndex(s => s.id === stateId): first match, 0 for -1
RECURSIVE FindIndexFrom(_, _, _)
FindIndexFrom(d, stateId, i) ==
  IF i > Len(d.states) THEN 0
  ELSE IF d.heap[d.states[i]].id = stateId THEN i
  ELSE FindIndexFrom(d, stateId, i + 1)

FindIndex(d, stateId) == FindIndexFrom(d, stateId, 1)

\* states.splice(index, 1)
Splice(seq, index) == SubSeq(seq, 1, index - 1) \o SubSeq(seq, index + 1, Len(seq))

\* removeState without the pass that deletes the transitions to the state
removeStateNoCascade(d, stateId) ==
  LET index == FindIndex(d, stateId)
  IN IF index # 0
     THEN [d |-> [d EXCEPT !.startState = IF @ = d.states[index] THEN Null ELSE @,
                           !.states = Splice(@, index)],
           ret |-> Null]
     ELSE [d |-> d, ret |-> Null]

\* removeState without the test of the index: for an id that is not found,
\* splice(-1, 1) removes the last state
removeStateAnyIndex(d, stateId) ==
  LET index == FindIndex(d, stateId)
  IN IF index # 0
     THEN LET state == d.states[index]
              pruned == [r \in DOMAIN d.heap |->
                          IF r \in Range(d.states)
                          THEN [d.heap[r] EXCEPT !.transitions =
                                 DeleteKeys(@, {sym \in DOMAIN @ : @[sym] = state})]
                          ELSE d.heap[r]]
          IN [d |-> [d EXCEPT !.startState = IF @ = state THEN Null ELSE @,
                              !.heap = pruned,
                              !.states = Splice(@, index)],
              ret |-> Null]
     ELSE [d |-> [d EXCEPT !.states = SubSeq(@, 1, Len(@) - 1)], ret |-> Null]

removeState(d, stateId) ==
  LET index == FindIndex(d, stateId)
  IN IF index # 0
     THEN LET state == d.states[index]
              pruned == [r \in DOMAIN d.heap |->
                          IF r \in Range(d.states)
                          THEN [d.heap[r] EXCEPT !.transitions =
                                 DeleteKeys(@, {sym \in DOMAIN @ : @[sym] = state})]
                          ELSE d.heap[r]]
          IN [d |-> [d EXCEPT !.startState = IF @ = state THEN Null ELSE @,
                              !.heap = pruned,
                              !.states = Splice(@, index)],
              ret |-> Null]
     ELSE [d |-> d, ret |-> Null]

\* dx * dx + dy * dy <= state.radius * state.radius
Contains(state, x, y) ==
  LET dx == x - state.x
      dy == y - state.y
  IN dx * dx + dy * dy <= state.radius * state.radius

\* the loop of getStateAt, from index i down to 1
RECURSIVE GetStateAtFrom(_, _, _, _)
GetStateAtFrom(d, x, y, i) ==
  IF i < 1 THEN Null
  ELSE IF Contains(d.heap[d.states[i]], x, y) THEN d.states[i]
  ELSE GetStateAtFrom(d, x, y, i - 1)

\* getStateAt with the loop running from the first state to the last
getStateAtOldestFirst(d, x, y) ==
  LET hits == {i \in DOMAIN d.states : Contains(d.heap[d.states[i]], x, y)}
  IN [d |-> d,
      ret |-> IF hits = {} THEN Null
              ELSE d.states[CHOOSE i \in hits : \A j \in hits : i <= j]]

getStateAt(d, x, y) == [d |-> d, ret |-> GetStateAtFrom(d, x, y, Len(d.states))]

\* addTransition without the alphabet test
addTransitionUnchecked(d, fromState, toState, symbol) ==
  [d |-> [d EXCEPT !.heap[fromState].transitions = PutKey(@, symbol, toState)],
   ret |-> TRUE]

\* addTransition that keeps the target a symbol already has
addTransitionKeepsFirst(d, fromState, toState, symbol) ==
  IF Has(d.alphabet, symbol)
  THEN [d |-> IF symbol \in DOMAIN d.heap[fromState].transitions
              THEN d
              ELSE [d EXCEPT !.heap[fromState].transitions = PutKey(@, symbol, toState)],
        ret |-> TRUE]
  ELSE [d |-> d, ret |-> FALSE]

\* addTransition that records the transition before it tests the symbol
addTransitionWritesFirst(d, fromState, toState, symbol) ==
  [d |-> [d EXCEPT !.heap[fromState].transitions = PutKey(@, symbol, toState)],
   ret |-> Has(d.alphabet, symbol)]

addTransition(d, fromState, toState, symbol) ==
  IF Has(d.alphabet, symbol)
  THEN [d |-> [d EXCEPT !.heap[fromState].transitions = PutKey(@, symbol, toState)],
        ret |-> TRUE]
  ELSE [d |-> d, ret |-> FALSE]

removeTransition(d, fromState, symbol) ==
  [d |-> [d EXCEPT !.heap[fromState].transitions = DeleteKeys(@, {symbol})],
   ret |-> Null]

\* setAlphabet without the pass that deletes the invalid transitions
setAlphabetNoPrune(d, symbols) ==
  [d |-> [d EXCEPT !.alphabet = NewSet(symbols)], ret |-> Null]

setAlphabet(d, symbols) ==
  LET alpha == NewSet(symbols)
      pruned == [r \in DOMAIN d.heap |->
                  IF r \in Range(d.states)
                  THEN [d.heap[r] EXCEPT !.transitions =
                         DeleteKeys(@, {sym \in DOMAIN @ : ~Has(alpha, sym)})]
                  ELSE d.heap[r]]
  IN [d |-> [d EXCEPT !.alphabet = alpha, !.heap = pruned], ret |-> Null]

\* the loop of simulate, recording an entry for a symbol outside the alphabet
RECURSIVE SimulateFromLogsBadSymbol(_, _, _, _, _)
SimulateFromLogsBadSymbol(d, inputString, i, current, trace) ==
  IF i > Len(inputString)
  THEN [accepted |-> d.heap[current].isAccept,
        finalState |-> d.heap[current].name,
        trace |-> trace]
  ELSE LET symbol == inputString[i]
           remaining == SubSeq(inputString, i + 1, Len(inputString))
       IN IF ~Has(d.alphabet, symbol)
          THEN [accepted |-> FALSE,
                error |-> "Symbol '" \o symbol \o "' not in alphabet",
                trace |-> Append(trace,
                           [state |-> d.heap[current].name, symbol |-> symbol,
                            remaining |-> remaining])]
          ELSE IF symbol \notin DOMAIN d.heap[current].transitions
          THEN [accepted |-> FALSE,
                error |-> "No transition from " \o d.heap[current].name
                          \o " on symbol '" \o symbol \o "'",
                trace |-> Append(trace,
                           [state |-> d.heap[current].name, symbol |-> symbol,
                            remaining |-> remaining,
                            error |-> "No transition defined"])]
          ELSE LET next == d.heap[current].transitions[symbol]
               IN SimulateFromLogsBadSymbol(d, inputString, i + 1, next,
                    Append(trace, [state |-> d.heap[next].name, symbol |-> symbol,
                                   remaining |-> remaining]))

\* the loop of simulate, recording no entry for a missing transition
RECURSIVE SimulateFromSilentStuck(_, _, _, _, _)
SimulateFromSilentStuck(d, inputString, i, current, trace) ==
  IF i > Len(inputString)
  THEN [accepted |-> d.heap[current].isAccept,
        finalState |-> d.heap[current].name,
        trace |-> trace]
  ELSE LET symbol == inputString[i]
           remaining == SubSeq(inputString, i + 1, Len(inputString))
       IN IF ~Has(d.alphabet, symbol)
          THEN [accepted |-> FALSE,
                error |-> "Symbol '" \o symbol \o "' not in alphabet",
                trace |-> trace]
          ELSE IF symbol \notin DOMAIN d.heap[current].transitions
          THEN [accepted |-> FALSE,
                error |-> "No transition from " \o d.heap[current].name
                          \o " on symbol '" \o symbol \o "'",
                trace |-> trace]
          ELSE LET next == d.heap[current].transitions[symbol]
               IN SimulateFromSilentStuck(d, inputString, i + 1, next,
                    Append(trace, [state |-> d.heap[next].name, symbol |-> symbol,
                                   remaining |-> remaining]))

\* the for loop of simulate from position i (1-based), with the walk so far
\* the loop of simulate, with the symbol read still in remaining
RECURSIVE SimulateFromKeepsSymbol(_, _, _, _, _)
SimulateFromKeepsSymbol(d, inputString, i, current, trace) ==
  IF i > Len(inputString)
  THEN [accepted |-> d.heap[current].isAccept,
        finalState |-> d.heap[current].name,
        trace |-> trace]
  ELSE LET symbol == inputString[i]
           remaining == SubSeq(inputString, i, Len(inputString))
       IN IF ~Has(d.alphabet, symbol)
          THEN [accepted |-> FALSE,
                error |-> "Symbol '" \o symbol \o "' not in alphabet",
                trace |-> trace]
          ELSE IF symbol \notin DOMAIN d.heap[current].transitions
          THEN [accepted |-> FALSE,
                error |-> "No transition from " \o d.heap[current].name
                          \o " on symbol '" \o symbol \o "'",
                trace |-> Append(trace,
                           [state |-> d.heap[current].name, symbol |-> symbol,
                            remaining |-> remaining,
                            error |-> "No transition defined"])]
          ELSE LET next == d.heap[current].transitions[symbol]
               IN SimulateFromKeepsSymbol(d, inputString, i + 1, next,
                    Append(trace, [state |-> d.heap[next].name, symbol |-> symbol,
                                   remaining |-> remaining]))

RECURSIVE SimulateFrom(_, _, _, _, _)
SimulateFrom(d, inputString, i, current, trace) ==
  IF i > Len(inputString)
  THEN [accepted |-> d.heap[current].isAccept,
        finalState |-> d.heap[current].name,
        trace |-> trace]
  ELSE LET symbol == inputString[i]
           remaining == SubSeq(inputString, i + 1, Len(inputString))
       IN IF ~Has(d.alphabet, symbol)
          THEN [accepted |-> FALSE,
                error |-> "Symbol '" \o symbol \o "' not in alphabet",
                trace |-> trace]
          ELSE IF symbol \notin DOMAIN d.heap[current].transitions
          THEN [accepted |-> FALSE,
                error |-> "No transition from " \o d.heap[current].name
                          \o " on symbol '" \o symbol \o "'",
                trace |-> Append(trace,
                           [state |-> d.heap[current].name, symbol |-> symbol,
                            remaining |-> remaining,
                            error |-> "No transition defined"])]
          ELSE LET next == d.heap[current].transitions[symbol]
               IN SimulateFrom(d, inputString, i + 1, next,
                    Append(trace, [state |-> d.heap[next].name, symbol |-> symbol,
                                   remaining |-> remaining]))

\* the start entry of a trace
StartEntry(d, inputString) ==
  [state |-> d.heap[d.startState].name, symbol |-> "START", remaining |-> inputString]

\* simulate reporting the isAccept of the start state
simulateAcceptOfStart(d, inputString) ==
  IF d.startState = Null
  THEN [d |-> d,
        ret |-> [accepted |-> FALSE, error |-> "No start state defined", trace |-> <<>>]]
  ELSE LET r == SimulateFrom(d, inputString, 1, d.startState, <<StartEntry(d, inputString)>>)
       IN [d |-> d,
           ret |-> IF "finalState" \in DOMAIN r
                   THEN [r EXCEPT !.accepted = d.heap[d.startState].isAccept]
                   ELSE r]

\* simulate recording the START entry before it tests the start state
simulateTraceBeforeTest(d, inputString) ==
  IF d.startState = Null
  THEN [d |-> d,
        ret |-> [accepted |-> FALSE, error |-> "No start state defined",
                 trace |-> <<[state |-> "undefined", symbol |-> "START",
                              remaining |-> inputString]>>]]
  ELSE [d |-> d,
        ret |-> SimulateFrom(d, inputString, 1, d.startState, <<StartEntry(d, inputString)>>)]

\* simulate walking with this.startState as its cursor
simulateMovesStart(d, inputString) ==
  IF d.startState = Null
  THEN [d |-> d,
        ret |-> [accepted |-> FALSE, error |-> "No start state defined", trace |-> <<>>]]
  ELSE LET r == SimulateFrom(d, inputString, 1, d.startState, <<StartEntry(d, inputString)>>)
       IN [d |-> [d EXCEPT !.startState =
                    IF Len(inputString) > 0
                       /\ inputString[1] \in DOMAIN d.heap[@].transitions
                    THEN d.heap[@].transitions[inputString[1]]
                    ELSE @],
           ret |-> r]

simulate(d, inputString) ==
  IF d.startState = Null
  THEN [d |-> d,
        ret |-> [accepted |-> FALSE, error |-> "No start state defined", trace |-> <<>>]]
  ELSE [d |-> d,
        ret |-> SimulateFrom(d, inputString, 1, d.startState, <<StartEntry(d, inputString)>>)]

(* ------------------------ generateAllStrings -------------------------- *)

\* the value parseInt gives for a field that holds no number
NaN == -1000

\* a > b and a < b of numbers: false when b is NaN
Greater(a, b) == b # NaN /\ a > b
Less(a, b) == b # NaN /\ a < b

\* what parseInt makes of the maxLengthInput field
MaxLengths == {NaN} \cup (-1..MaxLen)

\* Array.from(this.alphabet) in the reverse of the insertion order
alphabetArrayReversed(d) ==
  [k \in 1..Len(d.alphabet) |-> d.alphabet[Len(d.alphabet) + 1 - k]]

\* Array.from(this.alphabet): the symbols in insertion order
alphabetArray(d) == d.alphabet

\* the test that ends generate, also ending it at maxLength itself
TooLongAtMax(length, maxLength) == ~Less(length, maxLength)

\* if (length > maxLength) return
TooLong(length, maxLength) == Greater(length, maxLength)

\* the string field without the replacement of the empty string
ShownAsIs(current) == current

\* current || "ε": the one-character string ε for the empty string
Shown(current) == IF current = <<>> THEN <<"ε">> ELSE current

\* the entry of a string, accepted whenever its simulation has no error
EntryAcceptsUnlessError(d, current) ==
  LET result == simulate(d, current).ret
  IN [string |-> Shown(current), accepted |-> "error" \notin DOMAIN result]

\* the entry pushed for current: accepted is result.accepted && !result.error
Entry(d, current) ==
  LET result == simulate(d, current).ret
  IN [string |-> Shown(current),
      accepted |-> result.accepted /\ "error" \notin DOMAIN result]

\* generate(current, length) as the entries it pushes, in the order of the
\* pushes; ForEach is alphabetArray.forEach from the k-th symbol on
RECURSIVE generate(_, _, _, _), ForEach(_, _, _, _, _)
generate(d, maxLength, current, length) ==
  IF TooLong(length, maxLength) THEN <<>>
  ELSE <<Entry(d, current)>>
       \o (IF Less(length, maxLength)
           THEN ForEach(d, maxLength, current, length, 1)
           ELSE <<>>)

ForEach(d, maxLength, current, length, k) ==
  IF k > Len(alphabetArray(d)) THEN <<>>
  ELSE generate(d, maxLength, Append(current, alphabetArray(d)[k]), length + 1)
       \o ForEach(d, maxLength, current, length, k + 1)

generateAllStrings(d, maxLength) ==
  [d |-> d, ret |-> generate(d, maxLength, <<>>, 0)]

(* ------------------------------- Init --------------------------------- *)

Init ==
  /\ heap = <<>>
  /\ states = <<>>
  /\ alphabet = <<"0", "1">>
  /\ startState = Null
  /\ stateIdCounter = 0
  /\ selectedState = Null
  /\ draggedState = Null
  /\ isDragging = FALSE
  /\ mode = "addState"
  /\ transitionStart = Null
  /\ call = NoCall
  /\ events = 0

(* ------------------------- class DFACanvas ---------------------------- *)

\* const clickedState = this.dfa.getStateAt(x, y)
Clicked(x, y) == getStateAt(Dfa, x, y).ret

\* mousedown in mode "addState"
\* the addState branch making the new state the start state whenever the
\* automaton has none
MouseDownAddStateWhenNoStart(x, y) ==
  /\ Event
  /\ mode = "addState"
  /\ IF Clicked(x, y) = Null
     THEN /\ Len(heap) < MaxAlloc
          /\ LET r == addState(Dfa, x, y, "")
                 newState == r.ret
             IN /\ Commit(IF r.d.startState = Null
                          THEN [r.d EXCEPT !.heap[newState].isStart = TRUE,
                                           !.startState = newState]
                          ELSE r.d)
                /\ call' = Called("addState", <<x, y, "">>, newState)
     ELSE /\ UNCHANGED dfaVars
          /\ call' = NoCall
  /\ UNCHANGED canvasVars

MouseDownAddState(x, y) ==
  /\ Event
  /\ mode = "addState"
  /\ IF Clicked(x, y) = Null
     THEN /\ Len(heap) < MaxAlloc
          /\ LET r == addState(Dfa, x, y, "")
                 newState == r.ret
             IN /\ Commit(IF Len(r.d.states) = 1
                          THEN [r.d EXCEPT !.heap[newState].isStart = TRUE,
                                           !.startState = newState]
                          ELSE r.d)
                /\ call' = Called("addState", <<x, y, "">>, newState)
     ELSE /\ UNCHANGED dfaVars
          /\ call' = NoCall
  /\ UNCHANGED canvasVars

\* mousedown in mode "select"
MouseDownSelect(x, y) ==
  /\ Event
  /\ mode = "select"
  /\ IF Clicked(x, y) # Null
     THEN /\ selectedState' = Clicked(x, y)
          /\ draggedState' = Clicked(x, y)
          /\ isDragging' = TRUE
     ELSE /\ selectedState' = Null
          /\ UNCHANGED <<draggedState, isDragging>>
  /\ call' = NoCall
  /\ UNCHANGED <<dfaVars, mode, transitionStart>>

\* promptTransitionSymbol(fromState, toState), the user answering the prompt
\* with answer ("" for an empty answer or Cancel): the call it ends with
promptTransitionSymbol(d, fromState, toState, answer) ==
  LET existingTransitions == DOMAIN d.heap[fromState].transitions
      Available(sym) == \/ sym \notin existingTransitions
                        \/ d.heap[fromState].transitions[sym] = toState
      availableSymbols == SelectSeq(d.alphabet, Available)
  IN IF Len(availableSymbols) = 0
     THEN [d |-> d, called |-> FALSE]
     ELSE IF answer # "" /\ Has(d.alphabet, answer)
     THEN [d |-> addTransition(d, fromState, toState, answer).d, called |-> TRUE]
     ELSE [d |-> d, called |-> FALSE]

\* mousedown in mode "addTransition"
MouseDownAddTransition(x, y, answer) ==
  /\ Event
  /\ mode = "addTransition"
  /\ IF Clicked(x, y) # Null
     THEN IF transitionStart = Null
          THEN /\ transitionStart' = Clicked(x, y)
               /\ UNCHANGED dfaVars
               /\ call' = NoCall
          ELSE LET r == promptTransitionSymbol(Dfa, transitionStart, Clicked(x, y), answer)
               IN /\ Commit(r.d)
                  /\ transitionStart' = Null
                  /\ call' = IF r.called
                             THEN Called("addTransition",
                                         <<transitionStart, Clicked(x, y), answer>>, TRUE)
                             ELSE NoCall
     ELSE /\ UNCHANGED <<dfaVars, transitionStart>>
          /\ call' = NoCall
  /\ UNCHANGED <<selectedState, draggedState, isDragging, mode>>

\* mousedown in mode "delete"
MouseDownDelete(x, y) ==
  /\ Event
  /\ mode = "delete"
  /\ IF Clicked(x, y) # Null
     THEN /\ Commit(removeState(Dfa, heap[Clicked(x, y)].id).d)
          /\ selectedState' = IF selectedState = Clicked(x, y) THEN Null ELSE selectedState
          /\ call' = Called("removeState", <<heap[Clicked(x, y)].id>>, Null)
     ELSE /\ UNCHANGED <<dfaVars, selectedState>>
          /\ call' = NoCall
  /\ UNCHANGED <<draggedState, isDragging, mode, transitionStart>>

handleMouseDown(x, y) ==
  \/ MouseDownAddState(x, y)
  \/ MouseDownSelect(x, y)
  \/ \E answer \in Symbols \cup {""} : MouseDownAddTransition(x, y, answer)
  \/ MouseDownDelete(x, y)

handleMouseMove(x, y) ==
  /\ Event
  /\ IF isDragging /\ draggedState # Null
     THEN heap' = [heap EXCEPT ![draggedState].x = x, ![draggedState].y = y]
     ELSE UNCHANGED heap
  /\ call' = NoCall
  /\ UNCHANGED <<states, alphabet, startState, stateIdCounter, canvasVars>>

handleMouseUp ==
  /\ Event
  /\ isDragging' = FALSE
  /\ draggedState' = Null
  /\ call' = NoCall
  /\ UNCHANGED <<dfaVars, selectedState, mode, transitionStart>>

handleRightClick(x, y) ==
  /\ Event
  /\ selectedState' = IF Clicked(x, y) # Null THEN Clicked(x, y) ELSE selectedState
  /\ call' = NoCall
  /\ UNCHANGED <<dfaVars, draggedState, isDragging, mode, transitionStart>>

setMode(m) ==
  /\ Event
  /\ mode' = m
  /\ transitionStart' = Null
  /\ call' = NoCall
  /\ UNCHANGED <<dfaVars, selectedState, draggedState, isDragging>>

(* ------------------------ toolbar and forms --------------------------- *)

\* clearBtn click; confirmed is the user's answer to confirm()
clearBtn(confirmed) ==
  /\ Event
  /\ IF confirmed
     THEN /\ states' = <<>>
          /\ startState' = Null
          /\ stateIdCounter' = 0
          /\ selectedState' = Null
     ELSE UNCHANGED <<states, startState, stateIdCounter, selectedState>>
  /\ call' = NoCall
  /\ UNCHANGED <<heap, alphabet, draggedState, isDragging, mode, transitionStart>>

\* setAlphabetBtn click; symbols is the field's text split at commas, trimmed,
\* with the empty pieces dropped
setAlphabetBtn(symbols) ==
  /\ Event
  /\ IF Len(symbols) = 0
     THEN UNCHANGED dfaVars /\ call' = NoCall
     ELSE Commit(setAlphabet(Dfa, symbols).d) /\ call' = Called("setAlphabet", <<symbols>>, Null)
  /\ UNCHANGED canvasVars

\* the setStartState listener without the pass that clears the other flags
setStartStateChangeKeepsOthers(checked) ==
  /\ Event
  /\ IF selectedState # Null
     THEN IF checked
          THEN /\ heap' = [heap EXCEPT ![selectedState].isStart = TRUE]
               /\ startState' = selectedState
          ELSE /\ heap' = [heap EXCEPT ![selectedState].isStart = FALSE]
               /\ startState' = IF startState = selectedState THEN Null ELSE startState
     ELSE UNCHANGED <<heap, startState>>
  /\ call' = NoCall
  /\ UNCHANGED <<states, alphabet, stateIdCounter, canvasVars>>

\* change of the setStartState checkbox
setStartStateChange(checked) ==
  /\ Event
  /\ IF selectedState # Null
     THEN IF checked
          THEN /\ heap' = [r \in DOMAIN heap |->
                            IF r = selectedState THEN [heap[r] EXCEPT !.isStart = TRUE]
                            ELSE IF r \in Range(states) THEN [heap[r] EXCEPT !.isStart = FALSE]
                            ELSE heap[r]]
               /\ startState' = selectedState
          ELSE /\ heap' = [heap EXCEPT ![selectedState].isStart = FALSE]
               /\ startState' = IF startState = selectedState THEN Null ELSE startState
     ELSE UNCHANGED <<heap, startState>>
  /\ call' = NoCall
  /\ UNCHANGED <<states, alphabet, stateIdCounter, canvasVars>>

\* change of the setAcceptState checkbox
setAcceptStateChange(checked) ==
  /\ Event
  /\ IF selectedState # Null
     THEN heap' = [heap EXCEPT ![selectedState].isAccept = checked]
     ELSE UNCHANGED heap
  /\ call' = NoCall
  /\ UNCHANGED <<states, alphabet, startState, stateIdCounter, canvasVars>>

\* input on the stateNameInput field
stateNameInput(value) ==
  /\ Event
  /\ IF selectedState # Null
     THEN heap' = [heap EXCEPT ![selectedState].name =
                     IF value = "" THEN DefaultName(heap[selectedState].id) ELSE value]
     ELSE UNCHANGED heap
  /\ call' = NoCall
  /\ UNCHANGED <<states, alphabet, startState, stateIdCounter, canvasVars>>

\* testStringBtn click with input in the testStringInput field
testStringBtn(input) ==
  /\ Event
  /\ call' = Called("simulate", <<input>>, simulate(Dfa, input).ret)
  /\ Commit(simulate(Dfa, input).d)
  /\ UNCHANGED canvasVars

\* generateBtn click with maxLength parsed from the maxLengthInput field
generateBtn(maxLength) ==
  /\ Event
  /\ call' = Called("generateAllStrings", <<maxLength>>,
                    generateAllStrings(Dfa, maxLength).ret)
  /\ Commit(generateAllStrings(Dfa, maxLength).d)
  /\ UNCHANGED canvasVars

(* ------------------------- the editor session ------------------------- *)

Next ==
  \/ \E p \in Points : handleMouseDown(p[1], p[2])
  \/ \E p \in Points : handleMouseMove(p[1], p[2])
  \/ handleMouseUp
  \/ \E p \in Points : handleRightClick(p[1], p[2])
  \/ \E m \in Modes : setMode(m)
  \/ \E confirmed \in BOOLEAN : clearBtn(confirmed)
  \/ \E symbols \in SymbolLists : setAlphabetBtn(symbols)
  \/ \E checked \in BOOLEAN : setStartStateChange(checked)
  \/ \E checked \in BOOLEAN : setAcceptStateChange(checked)
  \/ \E value \in NameInputs : stateNameInput(value)
  \/ \E input \in InputStrings : testStringBtn(input)
  \/ \E maxLength \in MaxLengths : generateBtn(maxLength)
  \/ Return

Spec == Init /\ [][Next]_vars

(* ------------------- class DFA called by any client ------------------- *)
\* The methods of DFA called directly, in any order and with any arguments.

\* a client calls a method when no call is running
Call ==
  /\ call = NoCall
  /\ events < MaxCalls
  /\ events' = events + 1

addStateCall(x, y, name) ==
  /\ Call
  /\ Len(heap) < MaxAlloc
  /\ Commit(addState(Dfa, x, y, name).d)
  /\ call' = Called("addState", <<x, y, name>>, addState(Dfa, x, y, name).ret)
  /\ UNCHANGED canvasVars

removeStateCall(stateId) ==
  /\ Call
  /\ Commit(removeState(Dfa, stateId).d)
  /\ call' = Called("removeState", <<stateId>>, Null)
  /\ UNCHANGED canvasVars

getStateAtCall(x, y) ==
  /\ Call
  /\ Commit(getStateAt(Dfa, x, y).d)
  /\ call' = Called("getStateAt", <<x, y>>, getStateAt(Dfa, x, y).ret)
  /\ UNCHANGED canvasVars

addTransitionCall(fromState, toState, symbol) ==
  /\ Call
  /\ Commit(addTransition(Dfa, fromState, toState, symbol).d)
  /\ call' = Called("addTransition", <<fromState, toState, symbol>>,
                    addTransition(Dfa, fromState, toState, symbol).ret)
  /\ UNCHANGED canvasVars

removeTransitionCall(fromState, symbol) ==
  /\ Call
  /\ Commit(removeTransition(Dfa, fromState, symbol).d)
  /\ call' = Called("removeTransition", <<fromState, symbol>>, Null)
  /\ UNCHANGED canvasVars

setAlphabetCall(symbols) ==
  /\ Call
  /\ Commit(setAlphabet(Dfa, symbols).d)
  /\ call' = Called("setAlphabet", <<symbols>>, Null)
  /\ UNCHANGED canvasVars

simulateCall(inputString) ==
  /\ Call
  /\ Commit(simulate(Dfa, inputString).d)
  /\ call' = Called("simulate", <<inputString>>, simulate(Dfa, inputString).ret)
  /\ UNCHANGED canvasVars

generateAllStringsCall(maxLength) ==
  /\ Call
  /\ Commit(generateAllStrings(Dfa, maxLength).d)
  /\ call' = Called("generateAllStrings", <<maxLength>>,
                    generateAllStrings(Dfa, maxLength).ret)
  /\ UNCHANGED canvasVars

NextDFA ==
  \/ \E p \in Points, name \in NameInputs : addStateCall(p[1], p[2], name)
  \/ \E stateId \in 0..MaxAlloc : removeStateCall(stateId)
  \/ \E p \in Points : getStateAtCall(p[1], p[2])
  \/ \E fromState \in DOMAIN heap, toState \in DOMAIN heap, symbol \in Symbols :
       addTransitionCall(fromState, toState, symbol)
  \/ \E fromState \in DOMAIN heap, symbol \in Symbols : removeTransitionCall(fromState, symbol)
  \/ \E symbols \in SymbolLists : setAlphabetCall(symbols)
  \/ \E inputString \in InputStrings : simulateCall(inputString)
  \/ \E maxLength \in MaxLengths : generateAllStringsCall(maxLength)
  \/ Return

SpecDFA == Init /\ [][NextDFA]_vars

(* --------------------- the methods run step by step ------------------- *)
\* simulate and generateAllStrings executed one loop iteration or one step
\* of the recursion at a time, on an automaton built by editor events. While
\* a method runs, call holds its local variables: op is the method's name
\* with ":run" and ret the locals.

\* a method is running
Running == call.op \in {"simulate:run", "generateAllStrings:run"}

\* the listener calls a method when no call is running
Begin ==
  /\ call = NoCall
  /\ events < MaxSetup
  /\ events' = events + 1

\* simulate up to the for loop: the test of the start state and the START entry
simulateBegin(inputString) ==
  /\ Begin
  /\ call' = IF startState = Null
             THEN Called("simulate", <<inputString>>,
                         [accepted |-> FALSE, error |-> "No start state defined",
                          trace |-> <<>>])
             ELSE Called("simulate:run", <<inputString>>,
                         [i |-> 0, current |-> startState,
                          trace |-> <<StartEntry(Dfa, inputString)>>])
  /\ UNCHANGED <<dfaVars, canvasVars>>

\* the for loop forgetting its i++
simulateIterationNoIncrement(inputString, run) ==
  LET symbol == inputString[run.i + 1]
      remaining == SubSeq(inputString, run.i + 2, Len(inputString))
      name == heap[run.current].name
  IN IF ~Has(alphabet, symbol)
     THEN Called("simulate", <<inputString>>,
                 [accepted |-> FALSE,
                  error |-> "Symbol '" \o symbol \o "' not in alphabet",
                  trace |-> run.trace])
     ELSE IF symbol \notin DOMAIN heap[run.current].transitions
     THEN Called("simulate", <<inputString>>,
                 [accepted |-> FALSE,
                  error |-> "No transition from " \o name
                            \o " on symbol '" \o symbol \o "'",
                  trace |-> Append(run.trace,
                             [state |-> name, symbol |-> symbol,
                              remaining |-> remaining,
                              error |-> "No transition defined"])])
     ELSE LET next == heap[run.current].transitions[symbol]
          IN Called("simulate:run", <<inputString>>,
                    [i |-> run.i, current |-> next,
                     trace |-> Append(run.trace,
                                [state |-> heap[next].name, symbol |-> symbol,
                                 remaining |-> remaining])])

\* one iteration of the for loop with i < inputString.length, and its i++
simulateIteration(inputString, run) ==
  LET symbol == inputString[run.i + 1]
      remaining == SubSeq(inputString, run.i + 2, Len(inputString))
      name == heap[run.current].name
  IN IF ~Has(alphabet, symbol)
     THEN Called("simulate", <<inputString>>,
                 [accepted |-> FALSE,
                  error |-> "Symbol '" \o symbol \o "' not in alphabet",
                  trace |-> run.trace])
     ELSE IF symbol \notin DOMAIN heap[run.current].transitions
     THEN Called("simulate", <<inputString>>,
                 [accepted |-> FALSE,
                  error |-> "No transition from " \o name
                            \o " on symbol '" \o symbol \o "'",
                  trace |-> Append(run.trace,
                             [state |-> name, symbol |-> symbol,
                              remaining |-> remaining,
                              error |-> "No transition defined"])])
     ELSE LET next == heap[run.current].transitions[symbol]
          IN Called("simulate:run", <<inputString>>,
                    [i |-> run.i + 1, current |-> next,
                     trace |-> Append(run.trace,
                                [state |-> heap[next].name, symbol |-> symbol,
                                 remaining |-> remaining])])

\* the loop test, then one iteration or the return after the loop
simulateStep ==
  /\ call.op = "simulate:run"
  /\ LET inputString == call.args[1]
         run == call.ret
     IN call' = IF run.i < Len(inputString)
                THEN simulateIteration(inputString, run)
                ELSE Called("simulate", <<inputString>>,
                            [accepted |-> heap[run.current].isAccept,
                             finalState |-> heap[run.current].name,
                             trace |-> run.trace])
  /\ UNCHANGED <<dfaVars, canvasVars, events>>

\* generateAllStrings up to the call generate("", 0); a frame of the stack
\* is a call of generate with k the next symbol of its forEach (0 before
\* the body has run)
generateBegin(maxLength) ==
  /\ Begin
  /\ call' = Called("generateAllStrings:run", <<maxLength>>,
                    [stack |-> <<[current |-> <<>>, length |-> 0, k |-> 0]>>,
                     results |-> <<>>])
  /\ UNCHANGED <<dfaVars, canvasVars>>

\* the stack without its top frame
Pop(stack) == SubSeq(stack, 1, Len(stack) - 1)

\* the top frame of generate advanced by one step: its first part (the
\* length test and the push of the entry) or one round of its forEach
generateFrameStep(maxLength, run) ==
  LET top == run.stack[Len(run.stack)]
      symbols == alphabetArray(Dfa)
  IN IF top.k = 0
     THEN IF TooLong(top.length, maxLength)
          THEN [run EXCEPT !.stack = Pop(@)]
          ELSE [stack |-> IF Less(top.length, maxLength)
                          THEN [run.stack EXCEPT ![Len(run.stack)].k = 1]
                          ELSE Pop(run.stack),
                results |-> Append(run.results, Entry(Dfa, top.current))]
     ELSE IF top.k > Len(symbols)
          THEN [run EXCEPT !.stack = Pop(@)]
          ELSE [run EXCEPT !.stack =
                  Append([@ EXCEPT ![Len(@)].k = top.k + 1],
                         [current |-> Append(top.current, symbols[top.k]),
                          length |-> top.length + 1, k |-> 0])]

\* one step of the recursion, or return results when generate("", 0) is back
generateStep ==
  /\ call.op = "generateAllStrings:run"
  /\ LET maxLength == call.args[1]
         run == call.ret
     IN call' = IF run.stack = <<>>
                THEN Called("generateAllStrings", <<maxLength>>, run.results)
                ELSE Called("generateAllStrings:run", <<maxLength>>,
                            generateFrameStep(maxLength, run))
  /\ UNCHANGED <<dfaVars, canvasVars, events>>

\* editor events build the automaton; the two methods run in steps
NextRun ==
  \/ ~Running /\ Next /\ events' <= MaxSetup
  \/ \E inputString \in InputStrings : simulateBegin(inputString)
  \/ simulateStep
  \/ \E maxLength \in MaxLengths : generateBegin(maxLength)
  \/ generateStep

\* a running method is not suspended: its next step is taken
SpecRun ==
  /\ Init
  /\ [][NextRun]_vars
  /\ WF_vars(simulateStep)
  /\ WF_vars(generateStep)

(* ============================== claims ================================ *)

\* the states of the collection
Members == Range(states)

\* the input of the simulate call whose result call holds
SimInput == call.args[1]

\* the state reached from the start state by following w symbol by symbol, Null
\* when there is no start state, a symbol is outside the alphabet or a step
\* has no transition
RECURSIVE Reach(_)
Reach(w) ==
  IF w = <<>> THEN startState
  ELSE LET q == Reach(SubSeq(w, 1, Len(w) - 1))
           a == w[Len(w)]
       IN IF q = Null \/ a \notin Range(alphabet) \/ a \notin DOMAIN heap[q].transitions
          THEN Null
          ELSE heap[q].transitions[a]

Prefix(w, k) == SubSeq(w, 1, k)
Suffix(w, k) == SubSeq(w, k + 1, Len(w))

\* the number of symbols of w that the walk consumes (startState # Null)
Consumed(w) ==
  CHOOSE k \in 0..Len(w) :
    /\ Reach(Prefix(w, k)) # Null
    /\ k < Len(w) => Reach(Prefix(w, k + 1)) = Null

\* the trace of a walk that consumed the first k symbols of w
WalkTrace(w, k) ==
  [j \in 1..(k + 1) |->
     IF j = 1
     THEN [state |-> heap[startState].name, symbol |-> "START", remaining |-> w]
     ELSE [state |-> heap[Reach(Prefix(w, j - 1))].name, symbol |-> w[j - 1],
           remaining |-> Suffix(w, j - 1)]]

(* C1: in every state the editor reaches, at most one state of the collection
   has isStart, startState is null or in the collection, and a state of the
   collection has isStart exactly when it is startState. *)
C1_StartFlagAgrees ==
  /\ Cardinality({r \in Members : heap[r].isStart}) <= 1
  /\ startState = Null \/ startState \in Members
  /\ \A r \in Members : heap[r].isStart <=> (r = startState)

\* the start flag was moved to the second state by the checkbox
C1_Witness ==
  /\ Len(states) = 2
  /\ startState = states[2]
  /\ heap[states[2]].isStart
  /\ ~heap[states[1]].isStart

(* C2: under any interleaving of addState, removeState, addTransition,
   removeTransition and setAlphabet, every symbol keying a transition of a
   state of the collection is in the alphabet. *)
C2_TransitionSymbolsInAlphabet ==
  \A r \in Members : DOMAIN heap[r].transitions \subseteq Range(alphabet)

\* setAlphabet has shrunk the alphabet under a state that keeps a transition
C2_Witness ==
  /\ call.op = "setAlphabet"
  /\ alphabet = <<"0">>
  /\ \E r \in Members : DOMAIN heap[r].transitions = {"0"}

(* C3: removeState(id) of a state S of the collection removes S from the
   collection, leaves no remaining state with a transition to S, leaves every
   transition whose target is not S as it was, and sets startState to null if
   it was S and leaves it otherwise. *)
C3_RemovalCascade ==
  [][call'.op = "removeState" /\ (\E r \in Members : heap[r].id = call'.args[1]) =>
       LET S == CHOOSE r \in Members : heap[r].id = call'.args[1]
       IN /\ S \notin Range(states')
          /\ \A r \in Range(states') : \A sym \in DOMAIN heap'[r].transitions :
               heap'[r].transitions[sym] # S
          /\ \A r \in DOMAIN heap : \A sym \in DOMAIN heap[r].transitions :
               heap[r].transitions[sym] # S =>
                 /\ sym \in DOMAIN heap'[r].transitions
                 /\ heap'[r].transitions[sym] = heap[r].transitions[sym]
          /\ \A r \in DOMAIN heap : DOMAIN heap'[r].transitions \subseteq DOMAIN heap[r].transitions
          /\ startState' = IF startState = S THEN Null ELSE startState]_vars

\* the start state was removed and the remaining state keeps a transition
C3_Witness ==
  /\ call.op = "removeState"
  /\ Len(states) = 1
  /\ Len(heap) = 2
  /\ startState = Null
  /\ DOMAIN heap[states[1]].transitions # {}

(* C4: after setAlphabet(A) the alphabet is the set A and every state's
   transition table is its previous table restricted to the symbols of A. *)
C4_AlphabetCascade ==
  [][call'.op = "setAlphabet" =>
       LET A == Range(call'.args[1])
       IN /\ Range(alphabet') = A
          /\ Len(alphabet') = Cardinality(A)
          /\ \A r \in Members :
               /\ DOMAIN heap'[r].transitions = DOMAIN heap[r].transitions \cap A
               /\ \A sym \in DOMAIN heap'[r].transitions :
                    heap'[r].transitions[sym] = heap[r].transitions[sym]]_vars

\* setAlphabet was called with a repeated symbol and one transition survives
C4_Witness ==
  /\ call.op = "setAlphabet"
  /\ call.args[1] = <<"1", "1">>
  /\ \E r \in Members : DOMAIN heap[r].transitions = {"1"}

(* C5: simulate(input) with a start state, every symbol in the alphabet and a
   transition for every step returns no error, finalState the name of the
   state reached from the start state along input, and accepted that state's
   isAccept (the start state itself for the empty input). *)
C5_SimulateSuccess ==
  call.op = "simulate" /\ startState # Null /\ Reach(SimInput) # Null =>
    /\ DOMAIN call.ret = {"accepted", "finalState", "trace"}
    /\ call.ret.finalState = heap[Reach(SimInput)].name
    /\ call.ret.accepted = heap[Reach(SimInput)].isAccept

\* an accepted input whose walk ends in another state than the start state
C5_Witness ==
  /\ call.op = "simulate"
  /\ startState # Null
  /\ Len(SimInput) >= 1
  /\ Reach(SimInput) \notin {Null, startState}
  /\ call.ret.accepted

(* C6 (as amended): simulate(input) with no start state returns accepted =
   false, the error "No start state defined" and an empty trace, for every
   input including the empty one. *)
C6_NoStartState ==
  call.op = "simulate" /\ startState = Null =>
    call.ret = [accepted |-> FALSE, error |-> "No start state defined", trace |-> <<>>]

(* C6 as stated: the error is "no start state defined". *)
C6_Original ==
  call.op = "simulate" /\ startState = Null =>
    call.ret = [accepted |-> FALSE, error |-> "no start state defined", trace |-> <<>>]

\* the empty input tested on a collection whose start state was unset
C6_Witness ==
  /\ call.op = "simulate"
  /\ startState = Null
  /\ Len(states) > 0
  /\ SimInput = <<>>

(* C7: when simulate has consumed the first i symbols and the symbol at i is
   not in the alphabet, it returns accepted = false, an error naming that
   symbol, and the trace so far: START and one entry per consumed symbol. *)
C7_SymbolNotInAlphabet ==
  call.op = "simulate" /\ startState # Null =>
    LET w == SimInput
        i == Consumed(w)
    IN i < Len(w) /\ w[i + 1] \notin Range(alphabet) =>
         call.ret = [accepted |-> FALSE,
                     error |-> "Symbol '" \o w[i + 1] \o "' not in alphabet",
                     trace |-> WalkTrace(w, i)]

\* a symbol outside the alphabet met after one symbol was consumed
C7_Witness ==
  /\ call.op = "simulate"
  /\ startState # Null
  /\ Consumed(SimInput) = 1
  /\ Len(SimInput) = 2
  /\ SimInput[2] \notin Range(alphabet)

(* C8: when simulate has consumed the first i symbols, the symbol at i is in
   the alphabet and the current state has no transition for it, it appends
   one entry with the current state's name, the symbol and an error mark and
   returns accepted = false with an error naming that state and the symbol;
   the trace has i + 2 entries. *)
C8_NoTransition ==
  call.op = "simulate" /\ startState # Null =>
    LET w == SimInput
        i == Consumed(w)
        current == Reach(Prefix(w, i))
    IN i < Len(w) /\ w[i + 1] \in Range(alphabet) =>
         /\ call.ret = [accepted |-> FALSE,
                        error |-> "No transition from " \o heap[current].name
                                  \o " on symbol '" \o w[i + 1] \o "'",
                        trace |-> Append(WalkTrace(w, i),
                                    [state |-> heap[current].name, symbol |-> w[i + 1],
                                     remaining |-> Suffix(w, i + 1),
                                     error |-> "No transition defined"])]
         /\ Len(call.ret.trace) = i + 2

\* a missing transition met in another state than the start state
C8_Witness ==
  /\ call.op = "simulate"
  /\ startState # Null
  /\ Consumed(SimInput) = 1
  /\ Len(SimInput) = 2
  /\ SimInput[2] \in Range(alphabet)
  /\ Reach(Prefix(SimInput, 1)) # startState

(* C9: simulate(x), succeeding or failing, leaves the states, their flags and
   tables, the alphabet, the start reference and the id counter as they were,
   and a second simulate(x) right after it returns the same result. *)
C9_SimulateReadOnly ==
  [][call'.op = "simulate" =>
       /\ heap' = heap
       /\ states' = states
       /\ alphabet' = alphabet
       /\ startState' = startState
       /\ stateIdCounter' = stateIdCounter
       /\ simulate(Dfa', call'.args[1]).ret = call'.ret]_vars

\* a simulation that failed and returned a trace of two entries
C9_Witness ==
  /\ call.op = "simulate"
  /\ "error" \in DOMAIN call.ret
  /\ Len(call.ret.trace) >= 2

(* C10: addTransition(from, to, symbol) with symbol in the alphabet returns
   true and leaves from.transitions[symbol] = to, whatever target it had; the
   other entries of from's table, every other state object, the alphabet and
   the start reference are unchanged. *)
C10_AddTransition ==
  [][call'.op = "addTransition" /\ call'.args[3] \in Range(alphabet) =>
       LET from == call'.args[1]
           to == call'.args[2]
           symbol == call'.args[3]
       IN /\ call'.ret = TRUE
          /\ DOMAIN heap'[from].transitions = DOMAIN heap[from].transitions \cup {symbol}
          /\ heap'[from].transitions[symbol] = to
          /\ \A sym \in DOMAIN heap[from].transitions \ {symbol} :
               heap'[from].transitions[sym] = heap[from].transitions[sym]
          /\ \A r \in DOMAIN heap \ {from} : heap'[r] = heap[r]
          /\ DOMAIN heap' = DOMAIN heap
          /\ states' = states
          /\ alphabet' = alphabet
          /\ startState' = startState]_vars

\* a second transition added to a state, to another state
C10_Witness ==
  /\ call.op = "addTransition"
  /\ call.args[1] # call.args[2]
  /\ Cardinality(DOMAIN heap[call.args[1]].transitions) = 2
  /\ startState # Null

(* C11: a call of addTransition with a symbol that is not in the alphabet
   returns false and leaves the collection, every transition table, the
   start state, the alphabet and the id counter as they were. *)
C11_AddTransitionRejected ==
  [][(call'.op = "addTransition" /\ call'.args[3] \notin Range(alphabet))
       => /\ call'.ret = FALSE
          /\ heap' = heap
          /\ states' = states
          /\ alphabet' = alphabet
          /\ startState' = startState
          /\ stateIdCounter' = stateIdCounter]_vars

\* a transition on "1" was refused for a state that has a transition on "0"
C11_Witness ==
  /\ call.op = "addTransition"
  /\ call.ret = FALSE
  /\ call.args[3] = "1"
  /\ call.args[1] \in Members
  /\ DOMAIN heap[call.args[1]].transitions = {"0"}

\* the maxLength of the generateAllStrings call whose result call holds
GenMax == call.args[1]

\* the strings over the alphabet of at most n symbols
StringsUpTo(n) == IF n < 0 THEN {} ELSE SeqsUpTo(Range(alphabet), n)

\* the positions of the result that hold the entry of the string x
EntriesOf(x) ==
  {i \in DOMAIN call.ret : call.ret[i].string = IF x = <<>> THEN <<"ε">> ELSE x}

\* the walk of x from the start state ends in an accepting state
Accepts(x) == Reach(x) # Null /\ heap[Reach(x)].isAccept

(* C12: for every string x over the alphabet of at most maxLength symbols,
   the result of generateAllStrings(maxLength) has an entry for x, and the
   entry is accepted exactly when simulate(x) is accepted with no error: the
   walk of x from the start state exists and ends in an accepting state. *)
C12_AcceptanceEquivalence ==
  (call.op = "generateAllStrings" /\ GenMax # NaN)
    => \A x \in StringsUpTo(GenMax) :
         /\ EntriesOf(x) # {}
         /\ \A i \in EntriesOf(x) : call.ret[i].accepted <=> Accepts(x)

\* a result of maxLength 2 with an accepted string, a string rejected at the
\* end of its walk and a string rejected for a missing transition
C12_Witness ==
  /\ call.op = "generateAllStrings"
  /\ GenMax = 2
  /\ \E i, j, k \in DOMAIN call.ret :
       /\ call.ret[i].accepted
       /\ ~call.ret[j].accepted /\ Reach(call.ret[j].string) # Null
       /\ ~call.ret[k].accepted /\ Len(call.ret[k].string) = 2
       /\ Reach(call.ret[k].string) = Null

\* the position of the symbol a in the iteration order of the alphabet
RECURSIVE IndexOf(_, _)
IndexOf(a, k) ==
  IF k > Len(alphabet) THEN 0
  ELSE IF alphabet[k] = a THEN k
  ELSE IndexOf(a, k + 1)

\* the symbols of the entry at position i (<<>> for the entry shown as ε)
StringAt(i) == IF call.ret[i].string = <<"ε">> THEN <<>> ELSE call.ret[i].string

\* u comes before v among strings of one length: at the first position where
\* they differ, the symbol of u is earlier in the alphabet
LexLess(u, v) ==
  \E k \in 1..Len(u) :
    /\ k <= Len(v)
    /\ Prefix(u, k - 1) = Prefix(v, k - 1)
    /\ IndexOf(u[k], 1) < IndexOf(v[k], 1)

\* u comes before v in a dictionary: u is a proper prefix of v, or at the
\* first position where they differ the symbol of u is earlier
DictLess(u, v) ==
  \/ Len(u) < Len(v) /\ Prefix(v, Len(u)) = u
  \/ LexLess(u, v)

(* C13 as stated: the entries of generateAllStrings are ordered by
   increasing string length and, within one length, lexicographically by the
   alphabet's iteration order. *)
C13_Original ==
  call.op = "generateAllStrings"
    => \A i, j \in DOMAIN call.ret :
         i < j => \/ Len(StringAt(i)) < Len(StringAt(j))
                  \/ /\ Len(StringAt(i)) = Len(StringAt(j))
                     /\ LexLess(StringAt(i), StringAt(j))

(* C13: the entries of generateAllStrings are in depth-first order: every
   string comes before its extensions and before every string that has a
   later symbol at the first position where the two differ (dictionary order
   by the alphabet's iteration order). *)
C13_DepthFirstOrder ==
  call.op = "generateAllStrings"
    => \A i, j \in DOMAIN call.ret : i < j => DictLess(StringAt(i), StringAt(j))

\* the result for the alphabet 1, 0 and maxLength 2: 1 is followed by 11 and
\* 10, then 0 by 01 and 00
C13_Witness ==
  /\ call.op = "generateAllStrings"
  /\ GenMax = 2
  /\ alphabet = <<"1", "0">>
  /\ Len(call.ret) = 7
  /\ [i \in 1..7 |-> StringAt(i)]
       = << <<>>, <<"1">>, <<"1", "1">>, <<"1", "0">>,
            <<"0">>, <<"0", "1">>, <<"0", "0">> >>

\* b to the power k
RECURSIVE Power(_, _)
Power(b, k) == IF k = 0 THEN 1 ELSE b * Power(b, k - 1)

\* the sum of b^k for k = 0..n
RECURSIVE SumOfPowers(_, _)
SumOfPowers(b, n) == IF n = 0 THEN 1 ELSE SumOfPowers(b, n - 1) + Power(b, n)

(* C14: for every n >= 0 and every alphabet, the empty one included, the
   result of generateAllStrings(n) has exactly the sum over k = 0..n of
   |alphabet|^k entries (one entry for the empty alphabet). *)
C14_EnumerationSize ==
  (call.op = "generateAllStrings" /\ GenMax # NaN /\ GenMax >= 0)
    => Len(call.ret) = SumOfPowers(Cardinality(Range(alphabet)), GenMax)

\* the result of maxLength 2 for the empty alphabet is the one entry of the
\* empty string
C14_Witness ==
  /\ call.op = "generateAllStrings"
  /\ GenMax = 2
  /\ alphabet = <<>>
  /\ Len(call.ret) = 1

\* the result has an entry for the empty string, shown as ε
HasEmptyStringEntry == \E i \in DOMAIN call.ret : call.ret[i].string = <<"ε">>

(* C15 as stated: the result of generateAllStrings(maxLength) has an entry
   for the empty string, shown as ε, whatever maxLength is. *)
C15_Original == call.op = "generateAllStrings" => HasEmptyStringEntry

(* C15: when maxLength is 0 or more, or is not a number, the result of
   generateAllStrings(maxLength) starts with the entry of the empty string,
   shown as ε; when maxLength is negative the result is empty. *)
C15_EmptyStringEntry ==
  call.op = "generateAllStrings"
    => IF GenMax = NaN \/ GenMax >= 0
       THEN Len(call.ret) >= 1 /\ call.ret[1].string = <<"ε">>
       ELSE call.ret = <<>>

\* a result of maxLength 0 for an automaton with a start state: the one
\* entry ε
C15_Witness ==
  /\ call.op = "generateAllStrings"
  /\ GenMax = 0
  /\ startState # Null
  /\ Len(call.ret) = 1
  /\ call.ret[1].string = <<"ε">>

\* the ids of the state objects created so far in the session, in the
\* collection or removed from it (heap keeps every object addState created)
IssuedIds == {heap[r].id : r \in DOMAIN heap}

\* the states of the collection have pairwise distinct ids
DistinctIds == \A i, j \in DOMAIN states : heap[states[i]].id = heap[states[j]].id => i = j

(* C16 as stated: the states of the collection have pairwise distinct ids,
   and addState never returns a state with an id that was issued earlier in
   the session, to a state still in the collection or removed since. *)
C16_Original ==
  [][/\ DistinctIds'
     /\ call'.op = "addState" => heap'[call'.ret].id \notin IssuedIds]_vars

(* C16: the states of the collection have pairwise distinct ids; addState
   gives the new state the value of the id counter, which is above the id of
   every state of the collection, and adds one to the counter; the counter
   goes down only when clear-all empties the collection and sets it to 0,
   after which the ids are issued again from 0. *)
C16_IdsUniqueUntilClear ==
  [][/\ DistinctIds'
     /\ call'.op = "addState"
          => /\ heap'[call'.ret].id = stateIdCounter
             /\ stateIdCounter' = stateIdCounter + 1
             /\ \A r \in Members : heap[r].id < stateIdCounter
     /\ stateIdCounter' < stateIdCounter
          => /\ stateIdCounter' = 0
             /\ states' = <<>>
             /\ call' = NoCall]_vars

\* a state was added after another was deleted: the new state has id 1, the
\* deleted state had id 0 and the collection holds the new state only
C16_Witness ==
  /\ call.op = "addState"
  /\ Len(heap) = 2
  /\ heap[1].id = 0
  /\ heap[call.ret].id = 1
  /\ states = <<call.ret>>

(* C17: the trace of a simulate(input) that ends without error has
   len(input) + 1 entries; the first holds the name of the start state, the
   marker START and the whole input; the entry after k symbols holds the k-th
   symbol, the name of the state entered on it and the input after its first
   k symbols; the last entry has nothing remaining and its state is
   finalState. *)
C17_TraceShape ==
  (call.op = "simulate" /\ "finalState" \in DOMAIN call.ret)
    => LET trace == call.ret.trace
           n == Len(SimInput)
       IN /\ Len(trace) = n + 1
          /\ trace[1] = [state |-> heap[startState].name, symbol |-> "START",
                         remaining |-> SimInput]
          /\ \A k \in 1..n :
               trace[k + 1] = [state |-> heap[Reach(Prefix(SimInput, k))].name,
                               symbol |-> SimInput[k],
                               remaining |-> Suffix(SimInput, k)]
          /\ trace[n + 1].remaining = <<>>
          /\ trace[n + 1].state = call.ret.finalState

\* a run over two symbols that ends without error in a state other than the
\* one it passed after the first symbol
C17_Witness ==
  /\ call.op = "simulate"
  /\ "finalState" \in DOMAIN call.ret
  /\ Len(SimInput) = 2
  /\ Len(call.ret.trace) = 3
  /\ call.ret.trace[2].state # call.ret.trace[3].state

(* C18: a call of removeState with an id that no state of the collection has
   changes nothing: the collection, every transition table, the start state,
   the alphabet and the id counter stay as they were, and the call returns. *)
C18_RemoveUnknownId ==
  [][(call'.op = "removeState" /\ \A r \in Members : heap[r].id # call'.args[1])
       => /\ heap' = heap
          /\ states' = states
          /\ alphabet' = alphabet
          /\ startState' = startState
          /\ stateIdCounter' = stateIdCounter
          /\ call'.ret = Null]_vars

\* removeState(0) was called a second time, with a state left in the
\* collection that has a transition
C18_Witness ==
  /\ call.op = "removeState"
  /\ call.args[1] = 0
  /\ Len(heap) = 2
  /\ states = <<2>>
  /\ heap[1].id = 0
  /\ heap[2].transitions # EmptyTable

(* C19: in every state the editor reaches, the target of every transition of
   a state of the collection is a state of the collection: no table of the
   automaton refers to a removed state. *)
C19_TargetsInCollection ==
  \A r \in Members : \A sym \in DOMAIN heap[r].transitions :
    heap[r].transitions[sym] \in Members

\* a state was deleted in delete mode and the state left in the collection
\* keeps a transition, whose target is that state itself
C19_Witness ==
  /\ call.op = "removeState"
  /\ mode = "delete"
  /\ Len(heap) = 2
  /\ Len(states) = 1
  /\ \E sym \in DOMAIN heap[states[1]].transitions :
       heap[states[1]].transitions[sym] = states[1]

(* C20: in every state the editor reaches, selectedState is null or a state
   of the collection, and transitionStart is null or a state of the
   collection. *)
C20_EditorHoldsNoRemovedState ==
  /\ selectedState = Null \/ selectedState \in Members
  /\ transitionStart = Null \/ transitionStart \in Members

\* the half of C20 about selectedState
C20_SelectedInCollection == selectedState = Null \/ selectedState \in Members

(* C21: a state added through the editor is made the start state (isStart
   true and startState set to it) exactly when it is the only state of the
   collection after the add; a state added to a non-empty collection gets
   isStart false and leaves startState as it was, also when there is no
   start state. *)
C21_FirstStateIsStart ==
  [][call'.op = "addState"
       => LET newState == call'.ret
          IN /\ states' = Append(states, newState)
             /\ IF Len(states') = 1
                THEN heap'[newState].isStart /\ startState' = newState
                ELSE ~heap'[newState].isStart /\ startState' = startState]_vars

\* a second state was added while the automaton had no start state, and it
\* still has none
C21_Witness ==
  /\ call.op = "addState"
  /\ Len(states) = 2
  /\ states[2] = call.ret
  /\ startState = Null
  /\ ~heap[call.ret].isStart

\* the depth a call generateAllStrings(maxLength) may recurse to: the frames
\* of lengths 0..maxLength, and the frame of generate("", 0) alone when
\* maxLength is negative or not a number
DepthLimit(maxLength) ==
  IF maxLength = NaN \/ maxLength < 0 THEN 1 ELSE maxLength + 1

\* a running simulate has made at most len(input) iterations, one trace
\* entry each; the frames of a running generateAllStrings have the lengths
\* 0, 1, 2, ... and are at most DepthLimit many; a method that has returned
\* gives the result of the method run in one piece
C22_StepBounds ==
  /\ call.op = "simulate:run"
       => /\ call.ret.i <= Len(call.args[1])
          /\ Len(call.ret.trace) = call.ret.i + 1
  /\ call.op = "generateAllStrings:run"
       => /\ Len(call.ret.stack) <= DepthLimit(call.args[1])
          /\ \A j \in DOMAIN call.ret.stack :
               /\ call.ret.stack[j].length = j - 1
               /\ Len(call.ret.stack[j].current) = j - 1
  /\ call.op = "simulate" => call.ret = simulate(Dfa, call.args[1]).ret
  /\ call.op = "generateAllStrings"
       => call.ret = generateAllStrings(Dfa, call.args[1]).ret

(* C22: simulate and generateAllStrings run to completion for every
   alphabet, input and maxLength, also on a transition graph with cycles: a
   running method always returns, simulate makes at most len(input)
   iterations and generateAllStrings never recurses deeper than maxLength. *)
C22_Termination == []C22_StepBounds /\ (Running ~> ~Running)

\* simulate has read two symbols going round a transition from a state to
\* itself
C22_Witness ==
  /\ call.op = "simulate:run"
  /\ Len(call.args[1]) = 2
  /\ call.ret.i = 2
  /\ call.args[1][2] \in DOMAIN heap[call.ret.current].transitions
  /\ heap[call.ret.current].transitions[call.args[1][2]] = call.ret.current

\* the positions in the collection of the states whose centre is within
\* their radius of the point (x, y)
HitsAt(x, y) ==
  {i \in DOMAIN states :
     (x - heap[states[i]].x) * (x - heap[states[i]].x)
       + (y - heap[states[i]].y) * (y - heap[states[i]].y)
     <= heap[states[i]].radius * heap[states[i]].radius}

(* C23: getStateAt(x, y) returns the most recently added of the states whose
   centre is within their radius of (x, y), the squared distance being at
   most the squared radius, returns null when no state contains the point,
   and changes nothing in the model. *)
C23_GetStateAt ==
  [][call'.op = "getStateAt"
       => LET hits == HitsAt(call'.args[1], call'.args[2])
          IN /\ call'.ret = IF hits = {} THEN Null
                            ELSE states[CHOOSE i \in hits : \A j \in hits : j <= i]
             /\ heap' = heap
             /\ states' = states
             /\ alphabet' = alphabet
             /\ startState' = startState
             /\ stateIdCounter' = stateIdCounter]_vars

\* the point is the centre of the first state and lies on the rim of the
\* second, 30 away: the second state, added later, is returned
C23_Witness ==
  /\ call.op = "getStateAt"
  /\ Len(states) = 2
  /\ heap[states[1]].x = call.args[1] /\ heap[states[1]].y = call.args[2]
  /\ heap[states[2]].x # call.args[1]
  /\ HitsAt(call.args[1], call.args[2]) = {1, 2}
  /\ call.ret = states[2]

====
